---- MODULE Spec2Model ----
(***************************************************************************)
(* A model of compressor.py: the command-line front end (parse_arguments,  *)
(* check_ffmpeg, main, interactive_mode) and the encoder supervisor        *)
(* compress_video, which runs concurrently with the ffmpeg child process   *)
(* it spawns.  The child is the environment: it writes lines to its        *)
(* standard error, chunks to its standard output, and exits with a code.   *)
(*                                                                         *)
(* Times are counted in tenths of a second (the timestamps and durations   *)
(* of the model carry one fractional digit), so the float arithmetic of    *)
(* the script is integer arithmetic here; a percentage is counted in       *)
(* hundredths of a percent, which is what the "%.2f" format of the         *)
(* progress message shows.                                                 *)
(***************************************************************************)
EXTENDS Integers, Sequences, FiniteSets, TLC

(***************************************************************************)
(* Bounds of the model.                                                    *)
(***************************************************************************)
\* Lines the child writes to its standard error in one run, at most.
MaxLines == 2
\* What an OS pipe holds before a write to it blocks, counted in lines or
\* chunks (65536 bytes on Linux).
PipeCap == 1
\* Times the input-path prompt is answered with a path that is no file.
MaxReprompts == 1

(***************************************************************************)
(* Values.                                                                 *)
(***************************************************************************)
\* Python's None, and a present value.
None == <<>>
Some(x) == <<x>>

\* A path, as os.path.splitext sees it: the part before the extension and
\* the extension (with its dot, or empty).
Path(stem, ext) == [stem |-> stem, ext |-> ext]

MoviePath == Path("movie", ".mp4")
GonePath == Path("gone", ".mp4")
CustomOut == Path("movie_small", ".mkv")
\* The empty string, as a path.
EmptyPath == Path("", "")

\* The files that exist while the script runs.
ExistingFiles == {MoviePath}

\* os.path.isfile
os_path_isfile(p) == p \in ExistingFiles

\* os.path.splitext followed by f"{base_name}-cmp{ext}"
DefaultOutput(input) == Path(input.stem \o "-cmp", input.ext)

\* The nine presets of the --preset option and of the interactive prompt.
Presets ==
    {"ultrafast", "superfast", "veryfast", "faster", "fast", "medium", "slow",
     "slower", "veryslow"}

\* The default of --crf and the fallback of the interactive CRF prompt.
DefaultCrf == 28
\* The interactive CRF prompt accepts 0 <= crf <= MaxCrf.
MaxCrf == 51

(***************************************************************************)
(* The command line and parse_arguments.                                   *)
(***************************************************************************)
\* What may follow --crf: nothing, or a word that int() accepts or rejects.
CrfWords == {"18", "abc"}
\* int(word) where it is defined.
IntOf(word) ==
    CASE word = "18" -> 18
      [] word = "28" -> 28
      [] word = "0" -> 0
      [] word = "51" -> 51
      [] word = "52" -> 52
      [] word = "-1" -> 0 - 1
IsInt(word) == word \in {"18", "28", "0", "51", "52", "-1"}
\* str(n) of the integers a request may hold.
StrOf(n) ==
    CASE n = 18 -> "18"
      [] n = 28 -> "28"
      [] n = 0 -> "0"
      [] n = 51 -> "51"

\* The command lines the script is started with.
CommandLines ==
    [help : BOOLEAN,
     input_file : {None, Some(MoviePath), Some(GonePath), Some(EmptyPath)},
     output : {None, Some(CustomOut), Some(EmptyPath)},
     crf : {None} \cup {Some(w) : w \in CrfWords},
     preset : {None, Some("slow"), Some("bogus")},
     interactive : BOOLEAN]

\* argparse rejects the command line (and exits with status 2) when --crf is
\* no integer or --preset is none of the choices.
ArgsRejected(cl) ==
    \/ cl.crf # None /\ ~IsInt(cl.crf[1])
    \/ cl.preset # None /\ cl.preset[1] \notin Presets

\* The namespace parse_arguments returns for an accepted command line.
parse_arguments(cl) ==
    [input_file |-> cl.input_file,
     output |-> cl.output,
     crf |-> IF cl.crf = None THEN DefaultCrf ELSE IntOf(cl.crf[1]),
     preset |-> IF cl.preset = None THEN "medium" ELSE cl.preset[1],
     interactive |-> cl.interactive]

NoArgs ==
    [input_file |-> None, output |-> None, crf |-> DefaultCrf,
     preset |-> "medium", interactive |-> FALSE]

\* A variant that returns True whatever subprocess.run raised.
check_ffmpeg_AnyResult(installed) == TRUE

\* check_ffmpeg: subprocess.run raises FileNotFoundError exactly when ffmpeg
\* is not on the search path; any exit status of "ffmpeg -version" is fine.
check_ffmpeg(installed) == installed

(***************************************************************************)
(* The lines of the diagnostic stream, and the progress arithmetic.        *)
(***************************************************************************)
\* A timestamp "H:M:S.f" as the three fields time_str.split(':') yields,
\* the last one in tenths of a second.
TimeStr(h, m, ds) == <<h, m, ds>>

\* A line: whether it contains 'time=', and the text the pattern
\* time=(\d+:\d+:\d+\.\d+) captures in it, if any.
NoiseLine == [kind |-> "noise", ts |-> None]
TimeNaLine == [kind |-> "time_na", ts |-> None]
TimeLine(h, m, ds) == [kind |-> "time_ts", ts |-> Some(TimeStr(h, m, ds))]
\* What readline returns at end of file.
EmptyLine == [kind |-> "empty", ts |-> None]
\* The variable line before the first readline.
NoLine == [kind |-> "unbound", ts |-> None]

\* The lines the child may write.
Lines ==
    {NoiseLine, TimeNaLine, TimeLine(0, 1, 0), TimeLine(1, 1, 305)}

\* 'time=' in line
ContainsTimeEq(line) == line.kind \in {"time_na", "time_ts"}
\* pattern.search(line): None, or the captured group
PatternSearch(line) == line.ts

\* time_str_to_seconds, in tenths of a second
time_str_to_seconds(time_str) ==
    time_str[1] * 3600 * 10 + time_str[2] * 60 * 10 + time_str[3]

\* n / d rounded to the nearest integer, a tie to the even one: what "%.2f"
\* prints of a float, counted in hundredths.
RoundHalfEven(n, d) ==
    LET q == n \div d
        r == n % d
    IN  IF 2 * r < d THEN q
        ELSE IF 2 * r > d THEN q + 1
        ELSE IF q % 2 = 0 THEN q ELSE q + 1

\* A variant that clamps the percentage to 100.
ProgressShown_Clamped(current_time, total_duration) ==
    LET shown == RoundHalfEven(current_time * 10000, total_duration)
    IN  IF shown > 10000 THEN 10000 ELSE shown

\* (current_time / total_duration) * 100 as the message shows it, in
\* hundredths of a percent
ProgressShown(current_time, total_duration) ==
    RoundHalfEven(current_time * 10000, total_duration)

\* Python's truth value of total_duration: None and 0.0 are false
Truthy(total_duration) == total_duration # None /\ total_duration[1] # 0

\* A variant that shows 0.00% while the duration is not known.
ProgressEvents_Placeholder(line, total_duration) ==
    IF ContainsTimeEq(line) /\ PatternSearch(line) # None
    THEN IF Truthy(total_duration)
         THEN <<ProgressShown(time_str_to_seconds(PatternSearch(line)[1]),
                              total_duration[1])>>
         ELSE <<0>>
    ELSE <<>>

\* A variant that tests the duration against None only, and shows 0.00% for a
\* duration of 0.0.
ProgressEvents_TestsNoneOnly(line, total_duration) ==
    IF /\ ContainsTimeEq(line)
       /\ PatternSearch(line) # None
       /\ total_duration # None
    THEN <<IF total_duration[1] = 0
           THEN 0
           ELSE ProgressShown(time_str_to_seconds(PatternSearch(line)[1]),
                              total_duration[1])>>
    ELSE <<>>

\* The progress messages one line of the loop body prints (lines 142-150).
ProgressEvents(line, total_duration) ==
    IF /\ ContainsTimeEq(line)
       /\ PatternSearch(line) # None
       /\ Truthy(total_duration)
    THEN <<ProgressShown(time_str_to_seconds(PatternSearch(line)[1]),
                         total_duration[1])>>
    ELSE <<>>

(***************************************************************************)
(* The duration probe.                                                     *)
(***************************************************************************)
\* The durations ffprobe may print, in tenths of a second: 0.0 and 120.0.
Durations == {0, 1200}

\* A run of ffprobe: it is not installed, or it prints something float()
\* rejects, or it prints a number.
ProbeRuns ==
    {[found |-> FALSE, numeric |-> FALSE, value |-> 0],
     [found |-> TRUE, numeric |-> FALSE, value |-> 0]}
    \cup {[found |-> TRUE, numeric |-> TRUE, value |-> d] : d \in Durations}

\* get_video_duration: any exception gives None
get_video_duration(run) ==
    IF run.found /\ run.numeric THEN Some(run.value) ELSE None

(***************************************************************************)
(* The encoder's exit statuses.                                            *)
(***************************************************************************)
ExitCodes == {0, 1, 2}

\* process.poll(): None while the child runs, its exit status afterwards
Poll(childState, status) == IF childState = "exited" THEN Some(status) ELSE None

\* A variant that never leaves the loop on an empty read.
LoopBreaks_NeverOnEmptyRead(line, polled) ==
    IF line = EmptyLine THEN FALSE ELSE polled # None

\* A variant that takes an empty read for the end of the stream.
LoopBreaks_EmptyReadEnds(line, polled) ==
    IF line = EmptyLine THEN TRUE ELSE polled # None

\* Whether the loop is left after `line` was read and poll() gave `polled`:
\* lines 138-141 for an empty read, lines 151-152 after a line.
LoopBreaks(line, polled) ==
    IF line = EmptyLine THEN polled # None ELSE polled # None

\* Lines 236 and 268: the message for the exception compress_video raised.
ErrorMessage(exception) ==
    IF exception = "file_not_found"
    THEN "An error occurred: Input file does not exist"
    ELSE "An error occurred: FFmpeg encountered an error"

\* A variant that takes only exit status 1 for a failure.
OutcomeOf_OnlyStatusOne(return_code) ==
    IF return_code = 1 THEN "encode_failed" ELSE "success"

\* Lines 156-161: the outcome of compress_video for an exit status.
OutcomeOf(return_code) ==
    IF return_code # 0 THEN "encode_failed" ELSE "success"

(***************************************************************************)
(* The answers typed at the prompts of interactive_mode.                   *)
(***************************************************************************)
\* Answers to a (Y/n) question, as typed.
YesNoAnswers == {"", "y", " Yes ", "n", "maybe"}
\* answer.strip().lower()
StripLower(answer) == IF answer = " Yes " THEN "yes" ELSE answer

\* Answers to the input-path and output-path prompts.
InputAnswers == {MoviePath, GonePath}
OutputAnswers == {CustomOut, EmptyPath}
\* Answers to the extension prompt, and new_ext.startswith('.').
ExtAnswers == {"mkv", ".mkv"}
StartsWithDot(ext) == ext \in {".mkv"}
\* Answers to the CRF prompt and to the preset prompt.
CrfAnswers == {"0", "51", "52", "-1", "abc", ""}
PresetAnswers == {"slow", "bogus", ""}

\* Lines 197-200: the output path with its extension replaced.
WithExtension(output, new_ext) ==
    Path(output.stem,
         IF StartsWithDot(new_ext) THEN new_ext ELSE "." \o new_ext)

\* A variant that takes any integer, without the check of lines 207-208.
CrfFor_Unvalidated(crf_input) ==
    IF IsInt(crf_input) THEN IntOf(crf_input) ELSE DefaultCrf

\* Lines 205-211: the CRF for what was typed.
CrfFor(crf_input) ==
    IF IsInt(crf_input) /\ 0 <= IntOf(crf_input) /\ IntOf(crf_input) <= MaxCrf
    THEN IntOf(crf_input)
    ELSE DefaultCrf

\* Lines 219-223: the preset for what was typed.
PresetFor(preset_input) ==
    IF preset_input \in Presets THEN preset_input ELSE "fast"

(***************************************************************************)
(* State.                                                                  *)
(***************************************************************************)
VARIABLES
    pc,            \* the statement the script is at
    args,          \* main: the namespace parse_arguments returned
    mode,          \* "none", "interactive" or "batch"
    ffmpegInstalled,  \* whether ffmpeg is on the command search path
    parseResult,   \* what argparse made of the command line: "pending",
                   \* "accepted", "rejected" or "help"
    checks,        \* the runs of check_ffmpeg
    prompted,      \* whether a prompt of interactive_mode was shown
    printed,       \* the equivalent command that was printed, or None
    typed,         \* interactive_mode: what input() returned last, while
                   \* the questions are asked
    input_file, output_file, crf, preset,   \* the encode request
    probeRuns,     \* the ffprobe children started
    encoderRuns,   \* the ffmpeg encoder children started
    duration,      \* compress_video: duration / total_duration
    child,         \* the encoder child: "none", "running", "write_err",
                   \* "write_out" or "exited"
    stderrOpen,    \* whether the child holds the write end of its stderr
    exitStatus,    \* the exit status of the child once it exited
    stderrPipe,    \* the lines written to stderr and not yet read
    errWritten,    \* the number of lines the child wrote to stderr
    stdoutPipe,    \* the chunks in the stdout pipe, which nobody reads
    stdoutTotal,   \* the chunks this child writes to stdout before it exits
    pipesOpen,     \* whether process.stdout and process.stderr, the script's
                   \* ends of the two pipes, are open
    line,          \* compress_video: line
    returncode,    \* process.returncode: None until poll() or wait() set it
    return_code,   \* compress_video: return_code
    events,        \* the progress percentages printed, in hundredths
    outcome,       \* how compress_video ended: "success" or its exception
    reported,      \* the 'error' and 'success' messages print_message showed
    exitCode       \* the exit status of the script: None while it runs

frontVars ==
    <<args, mode, ffmpegInstalled, parseResult, checks, prompted, printed>>
requestVars == <<input_file, output_file, crf, preset>>
childVars ==
    <<child, stderrOpen, exitStatus, stderrPipe, errWritten, stdoutPipe,
      stdoutTotal>>
superVars ==
    <<probeRuns, encoderRuns, duration, line, returncode, return_code, events,
      outcome>>
vars ==
    <<pc, frontVars, typed, requestVars, childVars, superVars, pipesOpen,
      reported, exitCode>>

Init ==
    /\ pc = "parse_arguments"
    /\ args = NoArgs
    /\ mode = "none"
    /\ ffmpegInstalled \in BOOLEAN
    /\ parseResult = "pending"
    /\ checks = 0
    /\ prompted = FALSE
    /\ printed = None
    /\ typed = None
    /\ input_file = Path("", "")
    /\ output_file = Path("", "")
    /\ crf = DefaultCrf
    /\ preset = "medium"
    /\ probeRuns = 0
    /\ encoderRuns = 0
    /\ duration = None
    /\ child = "none"
    /\ stderrOpen = FALSE
    /\ exitStatus = 0
    /\ stderrPipe = <<>>
    /\ errWritten = 0
    /\ stdoutPipe = 0
    /\ stdoutTotal = 0
    /\ pipesOpen = FALSE
    /\ line = NoLine
    /\ returncode = None
    /\ return_code = None
    /\ events = <<>>
    /\ outcome = "none"
    /\ reported = <<>>
    /\ exitCode = None

\* sys.exit(status), or the return of main
Exit(status) == pc' = "exited" /\ exitCode' = Some(status)

(***************************************************************************)
(* main                                                                    *)
(***************************************************************************)
\* Line 241.  argparse prints the help and exits 0 for -h, and exits 2 for a
\* command line it rejects.
main_parse_arguments ==
    /\ pc = "parse_arguments"
    /\ \E cl \in CommandLines :
        IF cl.help
        THEN parseResult' = "help" /\ Exit(0) /\ UNCHANGED args
        ELSE IF ArgsRejected(cl)
        THEN parseResult' = "rejected" /\ Exit(2) /\ UNCHANGED args
        ELSE /\ parseResult' = "accepted"
             /\ args' = parse_arguments(cl)
             /\ pc' = "check_ffmpeg"
             /\ UNCHANGED exitCode
    /\ UNCHANGED <<mode, ffmpegInstalled, checks, prompted, printed>>
    /\ UNCHANGED <<requestVars, childVars, superVars, reported>>
    /\ UNCHANGED pipesOpen
    /\ UNCHANGED typed

\* Lines 244-246.
main_check_ffmpeg ==
    /\ pc = "check_ffmpeg"
    /\ checks' = checks + 1
    /\ IF ~check_ffmpeg(ffmpegInstalled)
       THEN /\ reported' = Append(reported, "FFmpeg is not installed")
            /\ Exit(1)
       ELSE /\ pc' = "dispatch"
            /\ UNCHANGED <<reported, exitCode>>
    /\ UNCHANGED <<args, mode, ffmpegInstalled, parseResult, prompted, printed>>
    /\ UNCHANGED <<requestVars, childVars, superVars>>
    /\ UNCHANGED pipesOpen
    /\ UNCHANGED typed

\* Python's `not x` for an optional path: None and '' are false.
Falsy(x) == x = None \/ x[1] = EmptyPath

\* Line 249: interactive mode is requested or required.
WantsInteractive(a) == a.interactive \/ Falsy(a.input_file)

\* Lines 254-262: the request main makes of the namespace.
BatchRequest(a) ==
    [input_file |-> a.input_file[1],
     output_file |-> IF Falsy(a.output)
                     THEN DefaultOutput(a.input_file[1])
                     ELSE a.output[1],
     crf |-> a.crf,
     preset |-> a.preset]

\* Lines 249-262.  interactive_mode takes nothing from args; otherwise the
\* request is read off args, and args is not read again.
main_dispatch ==
    /\ pc = "dispatch"
    /\ IF WantsInteractive(args)
       THEN /\ mode' = "interactive"
            /\ pc' = "ask_input"
            /\ UNCHANGED requestVars
       ELSE /\ mode' = "batch"
            /\ input_file' = BatchRequest(args).input_file
            /\ output_file' = BatchRequest(args).output_file
            /\ crf' = BatchRequest(args).crf
            /\ preset' = BatchRequest(args).preset
            /\ pc' = "cv_isfile"
    /\ args' = NoArgs
    /\ UNCHANGED <<ffmpegInstalled, parseResult, checks, prompted, printed>>
    /\ UNCHANGED <<childVars, superVars, reported, exitCode>>
    /\ UNCHANGED pipesOpen
    /\ UNCHANGED typed

(***************************************************************************)
(* interactive_mode                                                        *)
(***************************************************************************)
\* Line 184: the 'error' message shown before the prompt is repeated.
RepromptMessage == "File not found. Please enter a valid file path."
IsReprompt(message) == message = RepromptMessage

\* A variant that takes the first answer, without the loop of lines 183-185.
ask_input_Unchecked ==
    /\ pc = "ask_input"
    /\ prompted' = TRUE
    /\ \E answer \in InputAnswers :
        /\ typed' = Some(answer)
        /\ input_file' = answer
    /\ pc' = "ask_default_output"
    /\ UNCHANGED <<args, mode, ffmpegInstalled, parseResult, checks, printed>>
    /\ UNCHANGED <<output_file, crf, preset>>
    /\ UNCHANGED <<childVars, superVars, reported, exitCode>>
    /\ UNCHANGED pipesOpen

\* Lines 182-185: the prompt is repeated until the answer is a file.
ask_input ==
    /\ pc = "ask_input"
    /\ prompted' = TRUE
    /\ \E answer \in InputAnswers :
        /\ typed' = Some(answer)
        /\ input_file' = answer
        /\ IF os_path_isfile(answer)
           THEN pc' = "ask_default_output" /\ UNCHANGED reported
           ELSE /\ Len(SelectSeq(reported, IsReprompt)) < MaxReprompts
                /\ reported' = Append(reported, RepromptMessage)
                /\ pc' = "ask_input"
    /\ UNCHANGED <<args, mode, ffmpegInstalled, parseResult, checks, printed>>
    /\ UNCHANGED <<output_file, crf, preset>>
    /\ UNCHANGED <<childVars, superVars, exitCode>>
    /\ UNCHANGED pipesOpen

\* Lines 187-190.
ask_default_output ==
    /\ pc = "ask_default_output"
    /\ \E answer \in YesNoAnswers :
        /\ typed' = Some(answer)
        /\ IF StripLower(answer) \in {"", "y", "yes"}
           THEN /\ output_file' = DefaultOutput(input_file)
                /\ pc' = "ask_change_format"
           ELSE /\ pc' = "ask_output_path"
                /\ UNCHANGED output_file
    /\ UNCHANGED <<frontVars, input_file, crf, preset>>
    /\ UNCHANGED <<childVars, superVars, reported, exitCode>>
    /\ UNCHANGED pipesOpen

\* Line 192.
ask_output_path ==
    /\ pc = "ask_output_path"
    /\ \E answer \in OutputAnswers :
        /\ typed' = Some(answer)
        /\ output_file' = answer
    /\ pc' = "ask_change_format"
    /\ UNCHANGED <<frontVars, input_file, crf, preset>>
    /\ UNCHANGED <<childVars, superVars, reported, exitCode>>
    /\ UNCHANGED pipesOpen

\* A variant that asks for the new extension whatever the answer.
ask_change_format_AlwaysAsks ==
    /\ pc = "ask_change_format"
    /\ \E answer \in YesNoAnswers : typed' = Some(answer)
    /\ pc' = "ask_new_ext"
    /\ UNCHANGED <<frontVars, requestVars>>
    /\ UNCHANGED <<childVars, superVars, reported, exitCode>>
    /\ UNCHANGED pipesOpen

\* Lines 194-195.
ask_change_format ==
    /\ pc = "ask_change_format"
    /\ \E answer \in YesNoAnswers :
        /\ typed' = Some(answer)
        /\ pc' = IF StripLower(answer) \in {"y", "yes"}
                 THEN "ask_new_ext" ELSE "ask_quality"
    /\ UNCHANGED <<frontVars, requestVars>>
    /\ UNCHANGED <<childVars, superVars, reported, exitCode>>
    /\ UNCHANGED pipesOpen

\* Lines 196-200.
ask_new_ext ==
    /\ pc = "ask_new_ext"
    /\ \E answer \in ExtAnswers :
        /\ typed' = Some(answer)
        /\ output_file' = WithExtension(output_file, answer)
    /\ pc' = "ask_quality"
    /\ UNCHANGED <<frontVars, input_file, crf, preset>>
    /\ UNCHANGED <<childVars, superVars, reported, exitCode>>
    /\ UNCHANGED pipesOpen

\* Lines 202-203 and 212-213.
ask_quality ==
    /\ pc = "ask_quality"
    /\ \E answer \in YesNoAnswers :
        /\ typed' = Some(answer)
        /\ IF StripLower(answer) \in {"y", "yes"}
           THEN pc' = "ask_crf" /\ UNCHANGED crf
           ELSE pc' = "ask_speed" /\ crf' = DefaultCrf
    /\ UNCHANGED <<frontVars, input_file, output_file, preset>>
    /\ UNCHANGED <<childVars, superVars, reported, exitCode>>
    /\ UNCHANGED pipesOpen

\* Lines 204-211.
ask_crf ==
    /\ pc = "ask_crf"
    /\ \E answer \in CrfAnswers :
        /\ typed' = Some(answer)
        /\ crf' = CrfFor(answer)
    /\ pc' = "ask_speed"
    /\ UNCHANGED <<frontVars, input_file, output_file, preset>>
    /\ UNCHANGED <<childVars, superVars, reported, exitCode>>
    /\ UNCHANGED pipesOpen

\* Lines 215-216 and 224-225.
ask_speed ==
    /\ pc = "ask_speed"
    /\ \E answer \in YesNoAnswers :
        /\ typed' = Some(answer)
        /\ IF StripLower(answer) \in {"y", "yes"}
           THEN pc' = "ask_preset" /\ UNCHANGED preset
           ELSE pc' = "print_equivalent" /\ preset' = "fast"
    /\ UNCHANGED <<frontVars, input_file, output_file, crf>>
    /\ UNCHANGED <<childVars, superVars, reported, exitCode>>
    /\ UNCHANGED pipesOpen

\* Lines 217-223.
ask_preset ==
    /\ pc = "ask_preset"
    /\ \E answer \in PresetAnswers :
        /\ typed' = Some(answer)
        /\ preset' = PresetFor(answer)
    /\ pc' = "print_equivalent"
    /\ UNCHANGED <<frontVars, input_file, output_file, crf>>
    /\ UNCHANGED <<childVars, superVars, reported, exitCode>>
    /\ UNCHANGED pipesOpen

\* Line 228: the command line the equivalent command is when a shell runs
\* it: the two paths each one word (they are quoted), then str(crf) and the
\* preset.
EquivalentCommand(input, output, crf_value, preset_value) ==
    [help |-> FALSE,
     input_file |-> Some(input),
     output |-> Some(output),
     crf |-> Some(StrOf(crf_value)),
     preset |-> Some(preset_value),
     interactive |-> FALSE]

\* Lines 227-234: the equivalent command is printed and compress_video is
\* called.
print_equivalent ==
    /\ pc = "print_equivalent"
    /\ printed' =
        Some(EquivalentCommand(input_file, output_file, crf, preset))
    /\ typed' = None
    /\ pc' = "cv_isfile"
    /\ UNCHANGED <<args, mode, ffmpegInstalled, parseResult, checks, prompted>>
    /\ UNCHANGED <<requestVars, childVars, superVars, reported, exitCode>>
    /\ UNCHANGED pipesOpen

(***************************************************************************)
(* compress_video                                                          *)
(***************************************************************************)
\* A variant without the check of lines 111-112.
cv_isfile_unchecked ==
    /\ pc = "cv_isfile"
    /\ pc' = "cv_probe"
    /\ UNCHANGED <<frontVars, requestVars, childVars, superVars, reported,
                   exitCode>>
    /\ UNCHANGED pipesOpen
    /\ UNCHANGED typed

\* Lines 111-112.
cv_isfile ==
    /\ pc = "cv_isfile"
    /\ IF ~os_path_isfile(input_file)
       THEN outcome' = "file_not_found" /\ pc' = "cv_raised"
       ELSE pc' = "cv_probe" /\ UNCHANGED outcome
    /\ UNCHANGED <<frontVars, requestVars, childVars, reported, exitCode>>
    /\ UNCHANGED <<probeRuns, encoderRuns, duration, line, returncode,
                   return_code, events>>
    /\ UNCHANGED pipesOpen
    /\ UNCHANGED typed

\* A variant in which a failed probe raises, so that no encoder is started.
cv_probe_Fatal ==
    /\ pc = "cv_probe"
    /\ probeRuns' = probeRuns + 1
    /\ \E run \in ProbeRuns :
        /\ duration' = get_video_duration(run)
        /\ IF get_video_duration(run) = None
           THEN outcome' = "probe_failed" /\ pc' = "cv_raised"
           ELSE pc' = "cv_popen" /\ UNCHANGED outcome
    /\ UNCHANGED <<frontVars, requestVars, childVars, reported, exitCode>>
    /\ UNCHANGED <<encoderRuns, line, returncode, return_code, events>>
    /\ UNCHANGED pipesOpen
    /\ UNCHANGED typed

\* Line 115: get_video_duration runs ffprobe to its end.
cv_probe ==
    /\ pc = "cv_probe"
    /\ probeRuns' = probeRuns + 1
    /\ \E run \in ProbeRuns : duration' = get_video_duration(run)
    /\ pc' = "cv_popen"
    /\ UNCHANGED <<frontVars, requestVars, childVars, reported, exitCode>>
    /\ UNCHANGED <<encoderRuns, line, returncode, return_code, events, outcome>>
    /\ UNCHANGED pipesOpen
    /\ UNCHANGED typed

\* Lines 118-134: the encoder is started with both its stdout and its stderr
\* as pipes.  What the child is going to write to stdout is its own affair.
cv_popen ==
    /\ pc = "cv_popen"
    /\ encoderRuns' = encoderRuns + 1
    /\ child' = "running"
    /\ stderrOpen' = TRUE
    /\ \E n \in 0 .. PipeCap + 1 : stdoutTotal' = n
    /\ pipesOpen' = TRUE
    /\ pc' = "cv_readline"
    /\ UNCHANGED <<frontVars, requestVars, reported, exitCode>>
    /\ UNCHANGED <<exitStatus, stderrPipe, errWritten, stdoutPipe>>
    /\ UNCHANGED <<probeRuns, duration, line, returncode, return_code, events,
                   outcome>>
    /\ UNCHANGED typed

\* A variant that reads process.stdout instead of process.stderr.
cv_readline_from_stdout ==
    /\ pc = "cv_readline"
    /\ \/ /\ stdoutPipe > 0
          /\ line' = NoiseLine
          /\ stdoutPipe' = stdoutPipe - 1
       \/ /\ stdoutPipe = 0
          /\ child = "exited"
          /\ line' = EmptyLine
          /\ UNCHANGED stdoutPipe
    /\ pc' = "cv_line"
    /\ UNCHANGED <<frontVars, requestVars, reported, exitCode>>
    /\ UNCHANGED <<child, stderrOpen, exitStatus, errWritten, stderrPipe,
                   stdoutTotal>>
    /\ UNCHANGED <<probeRuns, encoderRuns, duration, returncode, return_code,
                   events, outcome>>
    /\ UNCHANGED pipesOpen
    /\ UNCHANGED typed

\* Line 137: readline returns the next line; it returns '' at end of file,
\* which is when the pipe is empty and no write end of it is open; otherwise
\* it blocks.
cv_readline ==
    /\ pc = "cv_readline"
    /\ \/ /\ stderrPipe # <<>>
          /\ line' = Head(stderrPipe)
          /\ stderrPipe' = Tail(stderrPipe)
       \/ /\ stderrPipe = <<>>
          /\ ~stderrOpen
          /\ line' = EmptyLine
          /\ UNCHANGED stderrPipe
    /\ pc' = "cv_line"
    /\ UNCHANGED <<frontVars, requestVars, reported, exitCode>>
    /\ UNCHANGED <<child, stderrOpen, exitStatus, errWritten, stdoutPipe,
                   stdoutTotal>>
    /\ UNCHANGED <<probeRuns, encoderRuns, duration, returncode, return_code,
                   events, outcome>>
    /\ UNCHANGED pipesOpen
    /\ UNCHANGED typed

\* Lines 138-152: the body of the loop for the line just read.  poll() sets
\* process.returncode when it finds the child terminated.
cv_line ==
    /\ pc = "cv_line"
    /\ LET polled == Poll(child, exitStatus)
       IN  /\ events' =
                IF line = EmptyLine
                THEN events
                ELSE events \o ProgressEvents(line, duration)
           /\ returncode' = IF polled # None THEN polled ELSE returncode
           /\ pc' = IF LoopBreaks(line, polled)
                    THEN "cv_wait" ELSE "cv_readline"
    /\ UNCHANGED <<frontVars, requestVars, childVars, reported, exitCode>>
    /\ UNCHANGED <<probeRuns, encoderRuns, duration, line, return_code,
                   outcome>>
    /\ UNCHANGED pipesOpen
    /\ UNCHANGED typed

\* Lines 154-155: wait() blocks until the child has terminated.
cv_wait ==
    /\ pc = "cv_wait"
    /\ child = "exited"
    /\ returncode' = Some(exitStatus)
    /\ return_code' = Some(exitStatus)
    /\ pc' = "cv_check"
    /\ UNCHANGED <<frontVars, requestVars, childVars, reported, exitCode>>
    /\ UNCHANGED <<probeRuns, encoderRuns, duration, line, events, outcome>>
    /\ UNCHANGED pipesOpen
    /\ UNCHANGED typed

\* Lines 156-161: the exception, or the success message.
cv_check ==
    /\ pc = "cv_check"
    /\ outcome' = OutcomeOf(return_code[1])
    /\ IF OutcomeOf(return_code[1]) = "success"
       THEN /\ reported' =
                 Append(reported, "Compression completed successfully")
            /\ pc' = "cv_returned"
       ELSE /\ pc' = "cv_raised"
            /\ UNCHANGED reported
    /\ UNCHANGED <<frontVars, requestVars, childVars, exitCode>>
    /\ UNCHANGED <<probeRuns, encoderRuns, duration, line, returncode,
                   return_code, events>>
    /\ UNCHANGED pipesOpen
    /\ UNCHANGED typed

\* A variant that calls compress_video again when it raised.
caller_except_Retry ==
    /\ pc = "cv_raised"
    /\ reported' = Append(reported, ErrorMessage(outcome))
    /\ pc' = "cv_isfile"
    /\ UNCHANGED <<frontVars, requestVars, childVars, superVars, exitCode>>
    /\ UNCHANGED pipesOpen
    /\ UNCHANGED typed

\* A variant that reports the exception and returns, without sys.exit(1).
caller_except_NoExit ==
    /\ pc = "cv_raised"
    /\ reported' = Append(reported, ErrorMessage(outcome))
    /\ Exit(0)
    /\ UNCHANGED <<frontVars, requestVars, childVars, superVars>>
    /\ UNCHANGED pipesOpen
    /\ UNCHANGED typed

\* Lines 235-237 and 267-269: the caller reports the exception and exits.
caller_except ==
    /\ pc = "cv_raised"
    /\ reported' = Append(reported, ErrorMessage(outcome))
    /\ Exit(1)
    /\ UNCHANGED <<frontVars, requestVars, childVars, superVars>>
    /\ UNCHANGED pipesOpen
    /\ UNCHANGED typed

\* No statement of compress_video closes process.stdout or process.stderr,
\* and Popen is not used in a with statement: the two streams are closed
\* when the interpreter finalizes the Popen object, which it may do at any
\* moment after compress_video has returned and its frame is gone, or when
\* the script has exited.  (While an exception is handled, its traceback
\* keeps the frame, and with it the object.)
popen_finalized ==
    /\ pc \in {"cv_returned", "exited"}
    /\ pipesOpen
    /\ pipesOpen' = FALSE
    /\ UNCHANGED <<pc, frontVars, requestVars, childVars, superVars, reported,
                   exitCode>>
    /\ UNCHANGED typed

\* Lines 234 and 266: compress_video returned; so does main, and the script
\* ends with status 0.
caller_return ==
    /\ pc = "cv_returned"
    /\ Exit(0)
    /\ UNCHANGED <<frontVars, requestVars, childVars, superVars, reported>>
    /\ UNCHANGED pipesOpen
    /\ UNCHANGED typed

(***************************************************************************)
(* The encoder child that Popen started.                                   *)
(***************************************************************************)
\* The child calls write on its stderr.
child_begin_write_err ==
    /\ child = "running"
    /\ stderrOpen
    /\ errWritten < MaxLines
    /\ child' = "write_err"
    /\ UNCHANGED <<stderrOpen, exitStatus, stderrPipe, errWritten, stdoutPipe,
                   stdoutTotal>>
    /\ UNCHANGED <<pc, frontVars, requestVars, superVars, reported, exitCode>>
    /\ UNCHANGED pipesOpen
    /\ UNCHANGED typed

\* The write returns once the pipe has room for the line.
child_write_err ==
    /\ child = "write_err"
    /\ Len(stderrPipe) < PipeCap
    /\ \E l \in Lines : stderrPipe' = Append(stderrPipe, l)
    /\ errWritten' = errWritten + 1
    /\ child' = "running"
    /\ UNCHANGED <<stderrOpen, exitStatus, stdoutPipe, stdoutTotal>>
    /\ UNCHANGED <<pc, frontVars, requestVars, superVars, reported, exitCode>>
    /\ UNCHANGED pipesOpen
    /\ UNCHANGED typed

\* The child calls write on its stdout.
child_begin_write_out ==
    /\ child = "running"
    /\ stdoutPipe < stdoutTotal
    /\ child' = "write_out"
    /\ UNCHANGED <<stderrOpen, exitStatus, stderrPipe, errWritten, stdoutPipe,
                   stdoutTotal>>
    /\ UNCHANGED <<pc, frontVars, requestVars, superVars, reported, exitCode>>
    /\ UNCHANGED pipesOpen
    /\ UNCHANGED typed

\* The write returns once the pipe has room for the chunk.  Nothing reads
\* this pipe.
child_write_out ==
    /\ child = "write_out"
    /\ stdoutPipe < PipeCap
    /\ stdoutPipe' = stdoutPipe + 1
    /\ child' = "running"
    /\ UNCHANGED <<stderrOpen, exitStatus, stderrPipe, errWritten, stdoutTotal>>
    /\ UNCHANGED <<pc, frontVars, requestVars, superVars, reported, exitCode>>
    /\ UNCHANGED pipesOpen
    /\ UNCHANGED typed

\* The child closes its stderr and runs on.
child_close_stderr ==
    /\ child = "running"
    /\ stderrOpen
    /\ stderrOpen' = FALSE
    /\ UNCHANGED <<child, exitStatus, stderrPipe, errWritten, stdoutPipe,
                   stdoutTotal>>
    /\ UNCHANGED <<pc, frontVars, requestVars, superVars, reported, exitCode>>
    /\ UNCHANGED pipesOpen
    /\ UNCHANGED typed

\* The child terminates, which closes its ends of the pipes.
child_exit ==
    /\ child = "running"
    /\ stdoutPipe = stdoutTotal
    /\ \E status \in ExitCodes : exitStatus' = status
    /\ child' = "exited"
    /\ stderrOpen' = FALSE
    /\ UNCHANGED <<stderrPipe, errWritten, stdoutPipe, stdoutTotal>>
    /\ UNCHANGED <<pc, frontVars, requestVars, superVars, reported, exitCode>>
    /\ UNCHANGED pipesOpen
    /\ UNCHANGED typed

(***************************************************************************)
(* The specification.                                                      *)
(***************************************************************************)
\* main and interactive_mode, up to the call of compress_video.
FrontEndNext ==
    \/ main_parse_arguments
    \/ main_check_ffmpeg
    \/ main_dispatch
    \/ ask_input
    \/ ask_default_output
    \/ ask_output_path
    \/ ask_change_format
    \/ ask_new_ext
    \/ ask_quality
    \/ ask_crf
    \/ ask_speed
    \/ ask_preset
    \/ print_equivalent

\* compress_video with the child it starts, and the caller's handling of how
\* it ends.
SupervisorNext ==
    \/ cv_isfile
    \/ cv_probe
    \/ cv_popen
    \/ cv_readline
    \/ cv_line
    \/ cv_wait
    \/ cv_check
    \/ caller_except
    \/ caller_return
    \/ popen_finalized
    \/ child_begin_write_err
    \/ child_write_err
    \/ child_begin_write_out
    \/ child_write_out
    \/ child_close_stderr
    \/ child_exit

Next == FrontEndNext \/ SupervisorNext

Spec == Init /\ [][Next]_vars

\* The script at the call of compress_video of line 266, started as
\* "compressor.py movie.mp4" or "compressor.py gone.mp4" with ffmpeg
\* installed: the states Spec reaches there for these command lines.
CallInit ==
    /\ pc = "cv_isfile"
    /\ args = NoArgs
    /\ mode = "batch"
    /\ ffmpegInstalled = TRUE
    /\ parseResult = "accepted"
    /\ checks = 1
    /\ prompted = FALSE
    /\ printed = None
    /\ typed = None
    /\ input_file \in {MoviePath, GonePath}
    /\ output_file = DefaultOutput(input_file)
    /\ crf = DefaultCrf
    /\ preset = "medium"
    /\ probeRuns = 0
    /\ encoderRuns = 0
    /\ duration = None
    /\ child = "none"
    /\ stderrOpen = FALSE
    /\ exitStatus = 0
    /\ stderrPipe = <<>>
    /\ errWritten = 0
    /\ stdoutPipe = 0
    /\ stdoutTotal = 0
    /\ pipesOpen = FALSE
    /\ line = NoLine
    /\ returncode = None
    /\ return_code = None
    /\ events = <<>>
    /\ outcome = "none"
    /\ reported = <<>>
    /\ exitCode = None

\* One call of compress_video, for the termination of the supervisor.  The
\* script's single thread keeps running: a statement of compress_video or of
\* its caller that can be executed is executed.  Nothing is assumed of the
\* child.
FairSpec ==
    /\ CallInit
    /\ [][SupervisorNext]_vars
    /\ WF_vars(cv_isfile)
    /\ WF_vars(cv_probe)
    /\ WF_vars(cv_popen)
    /\ WF_vars(cv_readline)
    /\ WF_vars(cv_line)
    /\ WF_vars(cv_wait)
    /\ WF_vars(cv_check)
    /\ WF_vars(caller_except)
    /\ WF_vars(caller_return)

(***************************************************************************)
(* Properties.                                                             *)
(***************************************************************************)
\* The read loop of compress_video has been left.
LoopLeft ==
    /\ encoderRuns > 0
    /\ pc \in {"cv_wait", "cv_check", "cv_raised", "cv_returned", "exited"}

\* compress_video has produced the outcome of an encode.
OutcomeProduced == outcome \in {"success", "encode_failed"}

\* compress_video is past its check of the input file.
PastIsfile ==
    \/ pc \in {"cv_probe", "cv_popen", "cv_readline", "cv_line", "cv_wait",
               "cv_check", "cv_raised", "cv_returned"}
    \/ pc = "exited" /\ mode # "none"

\* The messages that report how a run ended (the 'File not found' message of
\* the repeated input prompt is none of them).
IsOutcomeMessage(message) == ~IsReprompt(message)

SuccessMessage == "Compression completed successfully"
EncodeFailedMessage == "An error occurred: FFmpeg encountered an error"
FileNotFoundMessage == "An error occurred: Input file does not exist"
FfmpegMissingMessage == "FFmpeg is not installed"

\* C1: no outcome is produced while the encoder child is still running.  The
\* read loop is left only once poll() has seen the child terminated (so an
\* empty read from a child that is alive does not end it), and the outcome is
\* decided from the exit status read by then.
C1_NoOutcomeWhileRunning ==
    /\ LoopLeft => child = "exited" /\ returncode = Some(exitStatus)
    /\ OutcomeProduced => child = "exited" /\ return_code = Some(exitStatus)

\* C1's case: readline returned '' while the child was alive, and the loop went
\* on to the next readline.
C1_Witness ==
    /\ pc = "cv_readline"
    /\ line = EmptyLine
    /\ child # "exited"

\* C2: every line the child wrote to its stderr has been read when the loop
\* ends.  (The lines written are the lines read followed by the lines still
\* in the pipe.)
C2_EveryWrittenLineIsRead == LoopLeft => stderrPipe = <<>>

\* C3: a request whose input path is no file ends in the file-not-found
\* failure, and neither ffprobe nor the encoder is started for it.
C3_MissingInputSpawnsNothing ==
    (input_file \notin ExistingFiles /\ PastIsfile) =>
        /\ outcome = "file_not_found"
        /\ probeRuns = 0
        /\ encoderRuns = 0
        /\ pc = "exited" => reported = <<FileNotFoundMessage>>

\* C3's case: a run for a missing input file has ended.
C3_Witness ==
    /\ pc = "exited"
    /\ input_file = GonePath
    /\ outcome = "file_not_found"

\* C4: once the encoder was started, the outcome is success for exit status 0
\* and failure for any other, whatever was written to stderr and whether or
\* not the duration is known; and exactly one of the two is reported.
C4_OutcomeFollowsExitStatus ==
    /\ OutcomeProduced =>
        outcome = IF exitStatus = 0 THEN "success" ELSE "encode_failed"
    /\ (encoderRuns > 0 /\ pc \in {"cv_raised", "cv_returned", "exited"}) =>
        OutcomeProduced
    /\ (encoderRuns > 0 /\ pc = "exited") =>
        SelectSeq(reported, IsOutcomeMessage) =
            <<IF exitStatus = 0 THEN SuccessMessage ELSE EncodeFailedMessage>>

\* C4's case: the encoder wrote lines, exited with a status other than 0 and
\* 1, the duration unknown, and the run has ended.
C4_Witness ==
    /\ pc = "exited"
    /\ encoderRuns = 1
    /\ exitStatus = 2
    /\ errWritten > 0
    /\ duration = None

\* C5: while the duration is None, no progress percentage is printed.
C5_NoProgressWithoutDuration == duration = None => events = <<>>

\* C5's case: the duration is None and a line with a timestamp went through
\* the loop body.
C5_Witness ==
    /\ duration = None
    /\ pc = "cv_readline"
    /\ line.kind = "time_ts"

\* C6: once the child has terminated, the supervisor leaves the read loop
\* and the run ends with an outcome: readline returns what is left in the
\* pipe and then '', and poll() then ends the loop.
C6_TerminatedChildEndsRun == (child = "exited") ~> (pc = "exited")

\* C6's case: the child wrote nothing to stdout and has terminated, and
\* readline has returned '' from the drained stream.
C6_Witness ==
    /\ child = "exited"
    /\ stdoutTotal = 0
    /\ stdoutPipe = 0
    /\ pc = "cv_line"
    /\ line = EmptyLine

\* The child is in a write to a pipe that is full.
ChildBlocked ==
    \/ child = "write_out" /\ stdoutPipe >= PipeCap
    \/ child = "write_err" /\ Len(stderrPipe) >= PipeCap

\* The supervisor is in a readline that cannot return.
SupervisorBlocked == pc = "cv_readline" /\ ~ENABLED cv_readline

TwoPipeDeadlock == ChildBlocked /\ SupervisorBlocked

\* C7 as claimed: whatever the child writes to stdout, the child is never
\* blocked on a full pipe while the supervisor is blocked in readline.
C7_NoTwoPipeDeadlock == ~TwoPipeDeadlock

\* C7 as amended: for a child whose whole output to stdout fits in the pipe
\* (ffmpeg writes none), the child is never blocked on a full pipe while the
\* supervisor is blocked in readline.
C7_NoDeadlockWhenStdoutFits == stdoutTotal <= PipeCap => ~TwoPipeDeadlock

\* C7's case: the child filled the stdout pipe to its capacity, wrote lines
\* to stderr, and the run has ended.
C7_Witness ==
    /\ stdoutTotal = PipeCap
    /\ stdoutPipe = PipeCap
    /\ errWritten > 0
    /\ pc = "exited"

\* The loop body has run for the line read (only cv_line leaves "cv_line").
LineStep == pc = "cv_line" /\ pc' # "cv_line"

\* H*3600 + M*60 + S.f of a timestamp, in tenths of a second.
SecondsOf(ts) == ts[1] * 36000 + ts[2] * 600 + ts[3]

Abs(n) == IF n < 0 THEN 0 - n ELSE n

\* e hundredths of a percent is (t / D) * 100 to two decimal places, not
\* clamped: e / 100 is within 0.005 of 100 t / D.
IsPercentOf(e, t, D) == D # 0 /\ 2 * Abs(e * D - 10000 * t) <= D

\* The step appends exactly one event, the percentage for the line read.
OneEventForLine ==
    /\ Len(events') = Len(events) + 1
    /\ SubSeq(events', 1, Len(events)) = events
    /\ IsPercentOf(events'[Len(events')], SecondsOf(line.ts[1]), duration[1])

\* C8 as claimed: with a known duration D, a line with a timestamp that goes
\* through the loop body emits exactly one event, (t / D) * 100; a line with
\* no timestamp emits none.
C8_EventPerTimestampLine ==
    [][LineStep =>
        /\ (line.kind = "time_ts" /\ duration # None) => OneEventForLine
        /\ line.kind # "time_ts" => events' = events]_vars

\* C8 as amended: the same with a known duration other than 0.
C8_EventPerTimestampLineNonzero ==
    [][LineStep =>
        /\ (line.kind = "time_ts" /\ duration # None /\ duration[1] # 0) =>
            OneEventForLine
        /\ line.kind # "time_ts" => events' = events]_vars

\* C8's case: with a duration of 120.0 the line with time=1:1:30.5 went
\* through the loop body, and the last event is above 100 percent.
C8_Witness ==
    /\ pc = "cv_readline"
    /\ duration = Some(1200)
    /\ line = TimeLine(1, 1, 305)
    /\ events # <<>>
    /\ events[Len(events)] > 10000

\* With ffmpeg missing, nothing of either mode has happened.
NoModeLogic ==
    /\ mode = "none"
    /\ ~prompted
    /\ probeRuns = 0
    /\ encoderRuns = 0

\* C9 as claimed: every run performs the preflight check exactly once, and
\* with ffmpeg missing the run ends with a nonzero exit code before any logic
\* of either mode.
C9_PreflightFirst ==
    /\ checks <= 1
    /\ pc = "exited" => checks = 1
    /\ (~ffmpegInstalled /\ pc = "exited") =>
        exitCode # Some(0) /\ NoModeLogic

\* C9 as amended: the same for the runs whose command line argparse accepts;
\* the exit code is then 1.
C9_PreflightFirstOnceParsed ==
    /\ checks <= 1
    /\ (parseResult = "accepted" /\ pc # "check_ffmpeg") => checks = 1
    /\ ~ffmpegInstalled => NoModeLogic
    /\ (~ffmpegInstalled /\ parseResult = "accepted" /\ pc # "check_ffmpeg") =>
        /\ pc = "exited"
        /\ exitCode = Some(1)
        /\ reported = <<FfmpegMissingMessage>>

\* C9's case: the command line was accepted, ffmpeg is missing and the run
\* has ended.
C9_Witness ==
    /\ ~ffmpegInstalled
    /\ parseResult = "accepted"
    /\ checks = 1
    /\ pc = "exited"

\* One of the three failures was reported.
FailureReported ==
    \E i \in DOMAIN reported :
        reported[i] \in
            {FfmpegMissingMessage, EncodeFailedMessage, FileNotFoundMessage}

\* C10 as claimed: a run ends with exit code 1 when a failure was reported
\* and with 0 otherwise.
C10_ExitCodeOneIffFailure ==
    pc = "exited" => exitCode = Some(IF FailureReported THEN 1 ELSE 0)

\* C10 as amended: so it is for the runs whose command line argparse accepts,
\* in both modes, a failure being reported exactly when ffmpeg is missing, the
\* input file is missing or the encoder's exit status is not 0; a rejected
\* command line ends the run with 2, and --help with 0, nothing reported.
C10_ExitCodeOnceParsed ==
    pc = "exited" =>
        CASE parseResult = "help" -> exitCode = Some(0) /\ reported = <<>>
          [] parseResult = "rejected" -> exitCode = Some(2) /\ reported = <<>>
          [] parseResult = "accepted" ->
                /\ exitCode = Some(IF FailureReported THEN 1 ELSE 0)
                /\ FailureReported <=>
                    \/ ~ffmpegInstalled
                    \/ input_file \notin ExistingFiles
                    \/ encoderRuns > 0 /\ exitStatus # 0

\* C10's case: an interactive run whose encoder exited with status 2 has
\* ended with exit code 1.
C10_Witness ==
    /\ pc = "exited"
    /\ mode = "interactive"
    /\ exitStatus = 2
    /\ exitCode = Some(1)

\* The call of compress_video has ended, by a return or by an exception.
CallEnded ==
    \/ pc \in {"cv_raised", "cv_returned"}
    \/ pc = "exited" /\ mode # "none"

\* The probe of line 115 ran and gave None.
ProbeFailed == probeRuns = 1 /\ duration = None

\* C11: for an input file that exists the probe runs once, and it has ended
\* before the encoder is started; when the probe fails the encoder is started
\* all the same and the outcome is success for exit status 0 and the encode
\* failure for any other; no other failure comes of a failed probe.
C11_ProbeFailureNotFatal ==
    /\ probeRuns <= 1
    /\ (input_file \in ExistingFiles /\ PastIsfile /\ pc # "cv_probe") =>
        probeRuns = 1
    /\ pc = "cv_probe" => encoderRuns = 0 /\ child = "none"
    /\ encoderRuns > 0 => probeRuns = 1
    /\ (ProbeFailed /\ pc # "cv_popen") => encoderRuns = 1
    /\ (ProbeFailed /\ CallEnded) =>
        outcome = IF exitStatus = 0 THEN "success" ELSE "encode_failed"
    /\ outcome \in {"none", "success", "encode_failed", "file_not_found"}

\* C11's case: ffprobe was not found, the encoder exited with status 0 and
\* the run has ended with the success message.
C11_Witness ==
    /\ ProbeFailed
    /\ pc = "exited"
    /\ exitStatus = 0
    /\ outcome = "success"
    /\ exitCode = Some(0)

\* C13: a request starts the encoder at most once, and exactly once when its
\* input file exists; a failed encode is not started again.
C13_OneEncoderPerRequest ==
    /\ encoderRuns <= 1
    /\ (input_file \in ExistingFiles /\ PastIsfile /\
            pc \notin {"cv_probe", "cv_popen"}) => encoderRuns = 1
    /\ (input_file \notin ExistingFiles) => encoderRuns = 0
    /\ (child # "none") <=> encoderRuns = 1

\* C13's case: the encoder failed, the failure was reported and the run has
\* ended with the one encoder it started.
C13_Witness ==
    /\ pc = "exited"
    /\ encoderRuns = 1
    /\ outcome = "encode_failed"
    /\ reported # <<>>

\* C19: with a probed duration of 0.0 no percentage is computed, so nothing
\* is divided by zero: no progress event is printed whatever lines are read,
\* and the run ends with the outcome the exit status decides.
C19_NoProgressForZeroDuration ==
    duration = Some(0) =>
        /\ events = <<>>
        /\ pc = "cv_line" => ProgressEvents(line, duration) = <<>>
        /\ CallEnded =>
            outcome = IF exitStatus = 0 THEN "success" ELSE "encode_failed"

\* C19's case: the duration is 0.0 and a line with a timestamp went through
\* the loop body.
C19_Witness ==
    /\ duration = Some(0)
    /\ pc = "cv_readline"
    /\ line.kind = "time_ts"
    /\ errWritten > 0

\* C12 as claimed: when compress_video has ended, by its return or by an
\* exception, the streams of the two pipes are closed and the child is
\* reaped (process.returncode is set).
C12_PipesClosedAtExit ==
    (encoderRuns > 0 /\ CallEnded) => ~pipesOpen /\ returncode # None

\* The statements of interactive_mode that ask a question.
AskPcs ==
    {"ask_input", "ask_default_output", "ask_output_path",
     "ask_change_format", "ask_new_ext", "ask_quality", "ask_crf",
     "ask_speed", "ask_preset"}

\* The answers that say yes, as typed.
YesAnswers == {"y", " Yes "}

\* What was typed is an integer in 0..51.
IsValidCrf(text) == IsInt(text) /\ IntOf(text) \in 0 .. 51

\* C14: no answer ends an interactive run: every question is followed by a
\* question or by the equivalent command, and then compress_video starts the
\* encode.  The CRF is 28 unless the quality question was answered yes and an
\* integer in 0..51 was typed, which it then is; the preset is fast unless the
\* speed question was answered yes and one of the nine presets was typed,
\* which it then is; neither changes afterwards, so the request that reaches
\* the encoder has a CRF in 0..51 and one of the nine presets.
C14_InteractiveSettingsValid ==
    [][/\ pc \in AskPcs =>
            /\ pc' \in AskPcs \cup {"print_equivalent"}
            /\ exitCode' = None
       /\ pc = "print_equivalent" => pc' = "cv_isfile"
       /\ (mode = "interactive" /\ pc = "cv_isfile") => pc' = "cv_probe"
       /\ pc = "ask_quality" =>
            \/ typed'[1] \in YesAnswers /\ pc' = "ask_crf"
            \/ typed'[1] \notin YesAnswers /\ pc' = "ask_speed" /\ crf' = 28
       /\ pc = "ask_crf" =>
            crf' = IF IsValidCrf(typed'[1]) THEN IntOf(typed'[1]) ELSE 28
       /\ pc = "ask_speed" =>
            \/ typed'[1] \in YesAnswers /\ pc' = "ask_preset"
            \/ /\ typed'[1] \notin YesAnswers
               /\ pc' = "print_equivalent"
               /\ preset' = "fast"
       /\ pc = "ask_preset" =>
            preset' = IF typed'[1] \in Presets THEN typed'[1] ELSE "fast"
       /\ (mode = "interactive" /\ pc \notin {"ask_quality", "ask_crf"}) =>
            crf' = crf
       /\ (mode = "interactive" /\ pc \notin {"ask_speed", "ask_preset"}) =>
            preset' = preset
       /\ (mode = "interactive" /\ printed' # None) =>
            crf' \in 0 .. 51 /\ preset' \in Presets]_vars

\* C14's case: the quality question was answered yes and 52 was typed; the
\* CRF is 28 and the next question is asked.
C14_Witness ==
    /\ pc = "ask_speed"
    /\ typed = Some("52")
    /\ crf = 28

\* The request compress_video is called with.
Request ==
    [input_file |-> input_file, output_file |-> output_file, crf |-> crf,
     preset |-> preset]

\* C15 as claimed: the equivalent command is printed before compress_video
\* is called, and started with it the script accepts it, takes the batch
\* path and makes the request of the interactive session.
C15_EquivalentCommandSameRequest ==
    /\ (mode = "interactive" /\ PastIsfile) => printed # None
    /\ printed # None =>
        /\ ~ArgsRejected(printed[1])
        /\ ~WantsInteractive(parse_arguments(printed[1]))
        /\ BatchRequest(parse_arguments(printed[1])) = Request

\* C16: an interactive run leaves the input question only with an existing
\* file, compress_video is called with that path, and the file-not-found
\* failure occurs in batch mode only.  (The files do not change while the
\* script runs.)
C16_NoMissingInputInteractive ==
    /\ (mode = "interactive" /\ pc # "ask_input") =>
        input_file \in ExistingFiles
    /\ mode = "interactive" =>
        /\ outcome # "file_not_found"
        /\ \A i \in DOMAIN reported : reported[i] # FileNotFoundMessage
    /\ outcome = "file_not_found" => mode = "batch"

\* C16's case: a path that is no file was typed, the question was repeated,
\* and compress_video has passed its own check of the path typed then.
C16_Witness ==
    /\ mode = "interactive"
    /\ pc = "cv_probe"
    /\ reported = <<RepromptMessage>>

\* The question that follows an answer (or the equivalent command).
NextQuestion(question, text) ==
    CASE question = "ask_input" ->
            IF text \in ExistingFiles
            THEN "ask_default_output" ELSE "ask_input"
      [] question = "ask_default_output" ->
            IF text \in YesAnswers \cup {""}
            THEN "ask_change_format" ELSE "ask_output_path"
      [] question = "ask_output_path" -> "ask_change_format"
      [] question = "ask_change_format" ->
            IF text \in YesAnswers THEN "ask_new_ext" ELSE "ask_quality"
      [] question = "ask_new_ext" -> "ask_quality"
      [] question = "ask_quality" ->
            IF text \in YesAnswers THEN "ask_crf" ELSE "ask_speed"
      [] question = "ask_crf" -> "ask_speed"
      [] question = "ask_speed" ->
            IF text \in YesAnswers THEN "ask_preset" ELSE "print_equivalent"
      [] question = "ask_preset" -> "print_equivalent"

\* C17: the questions come in the fixed order, the first being the input
\* path; a follow-up question is asked exactly when the answer before it
\* calls for it, and right after that answer; questions are asked in
\* interactive mode only, and none once the equivalent command is printed.
C17_QuestionsInOrder ==
    [][/\ pc \in AskPcs =>
            typed' # None /\ pc' = NextQuestion(pc, typed'[1])
       /\ pc' \in AskPcs =>
            /\ pc \in AskPcs \cup {"dispatch"}
            /\ mode' = "interactive"
            /\ printed' = None
       /\ (pc = "dispatch" /\ pc' \in AskPcs) => pc' = "ask_input"
       /\ printed # None => pc' \notin AskPcs /\ typed' = None]_vars

\* C17's case: the speed question was answered " Yes " and the preset is
\* asked for next.
C17_Witness ==
    /\ pc = "ask_preset"
    /\ typed = Some(" Yes ")
    /\ printed = None

\* C18 as claimed: an empty answer to the default-output question takes the
\* default output path and moves on to the format question, and an empty
\* answer to the quality question leads to the CRF question.
C18_EmptyAnswerMeansYes ==
    [][/\ (pc = "ask_default_output" /\ typed' = Some("")) =>
            /\ output_file' = DefaultOutput(input_file)
            /\ pc' = "ask_change_format"
       /\ (pc = "ask_quality" /\ typed' = Some("")) => pc' = "ask_crf"]_vars

====
